---- MODULE Spec2Model ----
(***************************************************************************)
(* Model of the embedded PostgreSQL facade (src/backend/embedded/          *)
(* pgembedded.c): the process-wide handle, the error buffer, the           *)
(* transaction coordinator and the query facade, and of the cluster        *)
(* bootstrapper (src/backend/embedded/initdb_simple.c), driven by a host   *)
(* that calls the public entry points one at a time.                       *)
(*                                                                         *)
(* Every public entry point is one action.  The engine calls a handler     *)
(* makes are operators over a record `w` (the "world": the handler's view  *)
(* of all process state); each handler is an operator from the world       *)
(* before the call to the world after it, with the engine's possible       *)
(* behaviours (success, error return, raised error, allocation failure)    *)
(* chosen by a `fault` input.                                              *)
(***************************************************************************)
EXTENDS Integers, Sequences, FiniteSets, TLC

VARIABLES
    pg_initialized,     \* static bool pg_initialized
    pg_error_msg,       \* static char pg_error_msg[1024]
    xact,               \* engine: CurrentTransactionState->state
    committed,          \* engine: keys of the rows whose insert is committed
    pending,            \* engine: keys inserted by the transaction in progress
    snap,               \* engine: depth of the active-snapshot stack
    spi,                \* engine: number of open SPI engagements
    exc,                \* engine: PG_exception_stack ("clean" or "dangling")
    alive,              \* the host process is still running
    call,               \* last public operation called, with its arguments
    trace,              \* engine calls made by the last public operation
    rc,                 \* its return value ("0" / "-1", or "result" / "NULL")
    dropped,            \* the pending writes it discarded
    opener,             \* which operation started the transaction now open
    res,                \* the pg_result the last operation built, or NoResult
    wrote,              \* the last public operation wrote pg_error_msg
    fs,                 \* the file system: directories, files, catalog contents
    stdin,              \* descriptor 0 and the stdio stream on top of it
    line,               \* bootstrapper: the template line being substituted
    pos,                \* bootstrapper: the scan position in it (p)
    output,             \* bootstrapper: the substituted line so far (output)
    username_g,         \* bootstrapper: static char *username_g
    locale_g,           \* bootstrapper: static char *locale_g
    pg_config,          \* the durability flags last given to pg_embedded_set_config
    guc,                \* engine: the durability settings in effect
    boot,               \* concurrent bootstraps: each process's position and files
    scratch             \* concurrent bootstraps: /tmp/pg_bootstrap.bki

\* the template substitution loop has its own specification
scan == <<line, pos, output, username_g, locale_g>>

\* bootstraps running at the same time have their own specification
par == <<boot, scratch>>

vars == <<pg_initialized, pg_error_msg, xact, committed, pending, snap, spi,
          exc, alive, call, trace, rc, dropped, opener, res, wrote, fs, stdin,
          scan, pg_config, guc, par>>

----------------------------------------------------------------------------
(* Bounds                                                                  *)

MaxKey == 2         \* rows that may be inserted are keyed 1..MaxKey
MaxLeak == 1        \* exec is not called with this many snapshots or SPI engagements leaked
NumCols == 2        \* columns of the table the statements read and write
MaxPieces == 2      \* a template line is made of at most this many pieces
NumProcs == 2       \* bootstraps running at the same time

Keys == 1..MaxKey

----------------------------------------------------------------------------
(* The world record                                                        *)

\* an array pointer: NULL, or the array it points to
NullArray == [null |-> TRUE, at |-> <<>>]
Array(a) == [null |-> FALSE, at |-> a]

\* memset(result, 0, sizeof(pg_result))
ZeroResult ==
    [allocated |-> TRUE, status |-> 0, rows |-> 0, cols |-> 0,
     values |-> NullArray, colnames |-> NullArray]

\* no pg_result was allocated
NoResult == [ZeroResult EXCEPT !.allocated = FALSE]

World ==
    [init |-> pg_initialized, err |-> pg_error_msg, xact |-> xact,
     committed |-> committed, pending |-> pending, snap |-> snap, spi |-> spi,
     exc |-> exc, alive |-> alive, trace |-> <<>>, rc |-> "0", dropped |-> {},
     opener |-> opener, res |-> NoResult, wrote |-> FALSE, fs |-> fs,
     stdin |-> stdin, config |-> pg_config, guc |-> guc]

Install(w, c) ==
    /\ pg_initialized' = w.init
    /\ pg_error_msg' = w.err
    /\ xact' = w.xact
    /\ committed' = w.committed
    /\ pending' = w.pending
    /\ snap' = w.snap
    /\ spi' = w.spi
    /\ exc' = w.exc
    /\ alive' = w.alive
    /\ call' = c
    /\ trace' = w.trace
    /\ rc' = w.rc
    /\ dropped' = w.dropped
    /\ opener' = w.opener
    /\ res' = w.res
    /\ wrote' = w.wrote
    /\ fs' = w.fs
    /\ stdin' = w.stdin
    /\ pg_config' = w.config
    /\ guc' = w.guc
    /\ UNCHANGED <<scan, par>>

Log(w, name) == [w EXCEPT !.trace = Append(@, name)]

\* snprintf(pg_error_msg, sizeof(pg_error_msg), ...)
SetError(w, msg) == [w EXCEPT !.err = msg, !.wrote = TRUE]

\* return v;
Return(w, v) == [w EXCEPT !.rc = v]

\* a return statement placed inside PG_TRY(): PG_END_TRY() never restores
\* PG_exception_stack, which keeps pointing into the frame that returned
ReturnInsideTry(w, v) == [w EXCEPT !.rc = v, !.exc = "dangling"]

\* an error raised with no PG_TRY() block of the facade around it: the
\* engine either finds no handler (and exits the process) or jumps through
\* a dangling handler; in both cases the call never returns to the host
Escape(w, event) ==
    [w EXCEPT !.trace = Append(@, event), !.alive = FALSE, !.rc = "no return"]

----------------------------------------------------------------------------
(* The engine, as far as the facade drives it (access/xact.h, executor/    *)
(* spi.h, utils/snapmgr.h, storage/ipc.h).  A call that raises leaves the  *)
(* engine state as it was, except an abort that raises: the transaction is *)
(* then no longer in progress but its cleanup is not complete.             *)

SPI_OK_SELECT == 5
SPI_OK_INSERT == 7
SPI_ERROR_TRANSACTION == -8

\* IsTransactionState(): the transaction state is TRANS_INPROGRESS
IsTransactionState(w) == w.xact = "INPROGRESS"

\* the rows a statement run now would see
Visible(w) == w.committed \cup (IF IsTransactionState(w) THEN w.pending ELSE {})

\* StartTransactionCommand() succeeds only from the idle state
CanStart(w) == w.xact = "DEFAULT"

\* by: the public operation making the call
StartTransactionCommand(w, by) ==
    [Log(w, "StartTransactionCommand") EXCEPT !.xact = "INPROGRESS", !.opener = by]

\* CommitTransactionCommand(): the pending writes become durable; end-of-
\* transaction cleanup drops snapshots and SPI engagements still open
CommitTransactionCommand(w) ==
    [Log(w, "CommitTransactionCommand") EXCEPT
        !.xact = "DEFAULT", !.committed = @ \cup w.pending, !.pending = {},
        !.opener = "none", !.snap = 0, !.spi = 0]

\* AbortCurrentTransaction(): a no-op when idle, else the writes are dropped
AbortCurrentTransaction(w) ==
    [Log(w, "AbortCurrentTransaction") EXCEPT
        !.xact = "DEFAULT", !.pending = {}, !.dropped = @ \cup w.pending,
        !.opener = "none",
        !.snap = IF w.xact = "DEFAULT" THEN @ ELSE 0,
        !.spi = IF w.xact = "DEFAULT" THEN @ ELSE 0]

\* AbortCurrentTransaction() raising part-way: only possible when there is
\* something to abort
CanAbortRaise(w) == w.xact # "DEFAULT"

AbortRaised(w) ==
    [Log(w, "AbortCurrentTransaction raised") EXCEPT
        !.xact = "ABORT", !.pending = {}, !.dropped = @ \cup w.pending,
        !.opener = "none"]

PushActiveSnapshot(w) == [Log(w, "PushActiveSnapshot") EXCEPT !.snap = @ + 1]

PopActiveSnapshot(w) ==
    [Log(w, "PopActiveSnapshot") EXCEPT !.snap = IF @ > 0 THEN @ - 1 ELSE 0]

SPI_connect(w) == [Log(w, "SPI_connect") EXCEPT !.spi = @ + 1]

SPI_finish(w) == [Log(w, "SPI_finish") EXCEPT !.spi = IF @ > 0 THEN @ - 1 ELSE 0]

\* shmem_exit(0): the exit hooks abort any transaction and release all
shmem_exit(w) ==
    [Log(w, "shmem_exit") EXCEPT
        !.xact = "DEFAULT", !.pending = {}, !.dropped = @ \cup w.pending,
        !.opener = "none", !.snap = 0, !.spi = 0]

----------------------------------------------------------------------------
(* Transaction coordinator                                                 *)

TxFaults == {"none", "raise", "raise, abort raises"}

\* mutant: the pg_initialized check is missing
begin_ungated(w, fault) ==
    IF IsTransactionState(w)
    THEN Return(SetError(w, "Already in transaction"), "-1")
    ELSE IF fault = "none" /\ CanStart(w)
    THEN Return(StartTransactionCommand(w, "begin"), "0")
    ELSE LET w1 == SetError(Log(w, "StartTransactionCommand raised"),
                            "BEGIN failed: <engine message>")
         IN  IF fault = "raise, abort raises" /\ CanAbortRaise(w1)
             THEN Escape(AbortRaised(w1), "error outside PG_TRY")
             ELSE Return(AbortCurrentTransaction(w1), "-1")

\* mutant: the IsTransactionState() check is missing, begin commits the
\* open transaction and starts the next one
begin_nested(w, fault) ==
    IF ~w.init
    THEN Return(SetError(w, "Not initialized"), "-1")
    ELSE IF IsTransactionState(w)
    THEN Return(StartTransactionCommand(CommitTransactionCommand(w), "begin"), "0")
    ELSE IF fault = "none" /\ CanStart(w)
    THEN Return(StartTransactionCommand(w, "begin"), "0")
    ELSE LET w1 == SetError(Log(w, "StartTransactionCommand raised"),
                            "BEGIN failed: <engine message>")
         IN  IF fault = "raise, abort raises" /\ CanAbortRaise(w1)
             THEN Escape(AbortRaised(w1), "error outside PG_TRY")
             ELSE Return(AbortCurrentTransaction(w1), "-1")

\* mutant: PG_CATCH reports the error but does not abort
begin_no_abort_on_error(w, fault) ==
    IF ~w.init
    THEN Return(SetError(w, "Not initialized"), "-1")
    ELSE IF IsTransactionState(w)
    THEN Return(SetError(w, "Already in transaction"), "-1")
    ELSE IF fault = "none" /\ CanStart(w)
    THEN Return(StartTransactionCommand(w, "begin"), "0")
    ELSE Return(SetError(Log(w, "StartTransactionCommand raised"),
                         "BEGIN failed: <engine message>"), "-1")

\* pg_embedded_begin
pg_embedded_begin(w, fault) ==
    IF ~w.init
    THEN Return(SetError(w, "Not initialized"), "-1")
    ELSE IF IsTransactionState(w)
    THEN Return(SetError(w, "Already in transaction"), "-1")
    ELSE IF fault = "none" /\ CanStart(w)
    THEN Return(StartTransactionCommand(w, "begin"), "0")
    ELSE \* PG_CATCH
         LET w1 == SetError(Log(w, "StartTransactionCommand raised"),
                            "BEGIN failed: <engine message>")
         IN  IF fault = "raise, abort raises" /\ CanAbortRaise(w1)
             THEN Escape(AbortRaised(w1), "error outside PG_TRY")
             ELSE Return(AbortCurrentTransaction(w1), "-1")

\* mutant: PG_CATCH reports the error but does not abort
commit_no_abort_on_error(w, fault) ==
    IF ~w.init
    THEN Return(SetError(w, "Not initialized"), "-1")
    ELSE IF ~IsTransactionState(w)
    THEN Return(SetError(w, "Not in transaction"), "-1")
    ELSE IF fault = "none"
    THEN Return(CommitTransactionCommand(w), "0")
    ELSE Return(SetError(Log(w, "CommitTransactionCommand raised"),
                         "COMMIT failed: <engine message>"), "-1")

\* mutant: commit outside a transaction fails without a message
commit_silent_outside_transaction(w, fault) ==
    IF ~w.init
    THEN Return(SetError(w, "Not initialized"), "-1")
    ELSE IF ~IsTransactionState(w)
    THEN Return(w, "-1")
    ELSE IF fault = "none"
    THEN Return(CommitTransactionCommand(w), "0")
    ELSE LET w1 == SetError(Log(w, "CommitTransactionCommand raised"),
                            "COMMIT failed: <engine message>")
         IN  IF fault = "raise, abort raises" /\ CanAbortRaise(w1)
             THEN Escape(AbortRaised(w1), "error outside PG_TRY")
             ELSE Return(AbortCurrentTransaction(w1), "-1")

\* pg_embedded_commit
pg_embedded_commit(w, fault) ==
    IF ~w.init
    THEN Return(SetError(w, "Not initialized"), "-1")
    ELSE IF ~IsTransactionState(w)
    THEN Return(SetError(w, "Not in transaction"), "-1")
    ELSE IF fault = "none"
    THEN Return(CommitTransactionCommand(w), "0")
    ELSE \* PG_CATCH
         LET w1 == SetError(Log(w, "CommitTransactionCommand raised"),
                            "COMMIT failed: <engine message>")
         IN  IF fault = "raise, abort raises" /\ CanAbortRaise(w1)
             THEN Escape(AbortRaised(w1), "error outside PG_TRY")
             ELSE Return(AbortCurrentTransaction(w1), "-1")

\* mutant: rollback ends the transaction by committing it
rollback_commits(w, fault) ==
    IF ~w.init
    THEN Return(SetError(w, "Not in transaction"), "-1")
    ELSE IF ~IsTransactionState(w)
    THEN Return(SetError(w, "Not in transaction"), "-1")
    ELSE IF fault = "none"
    THEN Return(CommitTransactionCommand(w), "0")
    ELSE Return(AbortRaised(w), "0")

\* mutant: an error raised by the abort is reported, not swallowed
rollback_reports_error(w, fault) ==
    IF ~w.init
    THEN Return(SetError(w, "Not in transaction"), "-1")
    ELSE IF ~IsTransactionState(w)
    THEN Return(SetError(w, "Not in transaction"), "-1")
    ELSE IF fault = "none"
    THEN Return(AbortCurrentTransaction(w), "0")
    ELSE Return(SetError(AbortRaised(w), "ROLLBACK failed: <engine message>"), "-1")

\* pg_embedded_rollback
pg_embedded_rollback(w, fault) ==
    IF ~w.init
    THEN Return(SetError(w, "Not in transaction"), "-1")
    ELSE IF ~IsTransactionState(w)
    THEN Return(SetError(w, "Not in transaction"), "-1")
    ELSE IF fault = "none"
    THEN Return(AbortCurrentTransaction(w), "0")
    ELSE \* PG_CATCH: FlushErrorState()
         Return(AbortRaised(w), "0")

\* proc_exit(0): runs the exit hooks, then exit(): the process is gone
proc_exit(w) == Escape(shmem_exit(w), "proc_exit")

\* mutant: the exit hooks are run through the terminating path
shutdown_terminates(w, fault, abortRaised) ==
    IF ~w.init
    THEN Return(w, "void")
    ELSE proc_exit(w)

\* mutant: the pg_initialized check is missing
shutdown_ungated(w, fault, abortRaised) ==
    IF fault = "none"
    THEN Return([shmem_exit(w) EXCEPT !.init = FALSE], "void")
    ELSE LET w1 == IF abortRaised /\ CanAbortRaise(w) THEN AbortRaised(w)
                   ELSE shmem_exit(w)
         IN  Return([Log(w1, "shmem_exit raised") EXCEPT !.init = FALSE], "void")

\* mutant: the handle is not marked shut down
shutdown_keeps_flag(w, fault, abortRaised) ==
    IF ~w.init
    THEN Return(w, "void")
    ELSE IF fault = "none"
    THEN Return(shmem_exit(w), "void")
    ELSE LET w1 == IF abortRaised /\ CanAbortRaise(w) THEN AbortRaised(w)
                   ELSE shmem_exit(w)
         IN  Return(Log(w1, "shmem_exit raised"), "void")

\* pg_embedded_shutdown; abortRaised: the hook that raised is the first
\* one, which aborts the open transaction (else it is a later one)
pg_embedded_shutdown(w, fault, abortRaised) ==
    IF ~w.init
    THEN Return(w, "void")
    ELSE IF fault = "none"
    THEN Return([shmem_exit(w) EXCEPT !.init = FALSE], "void")
    ELSE \* PG_CATCH: FlushErrorState()
         LET w1 == IF abortRaised /\ CanAbortRaise(w) THEN AbortRaised(w)
                   ELSE shmem_exit(w)
         IN  Return([Log(w1, "shmem_exit raised") EXCEPT !.init = FALSE], "void")

----------------------------------------------------------------------------
(* Statements, tuples and results                                          *)

NullQuery == [kind |-> "NULL pointer", key |-> 0]

\* the statements the host submits; "COMMIT" stands for any transaction
\* control statement, which the execution interface refuses with a
\* negative code
Queries ==
    {[kind |-> "SELECT", key |-> 0], [kind |-> "COMMIT", key |-> 0]}
        \cup {[kind |-> "INSERT", key |-> k] : k \in Keys}

SqlNull == "<null datum>"       \* a null value inside the engine
NullPtr == "<NULL>"             \* a C null pointer (char *)
Uninit == "<uninitialized>"     \* malloc'ed memory never written

\* one slot of result->values: never written, holding NULL, or pointing to
\* a row of cells
UninitRow == [init |-> FALSE, null |-> FALSE, cells |-> <<>>]
NullRow == [init |-> TRUE, null |-> TRUE, cells |-> <<>>]
Row(cells) == [init |-> TRUE, null |-> FALSE, cells |-> cells]

\* the row with key k, as the engine stores it: a null in every column
\* (of the row whose key is the column number), next to empty strings and
\* to the text "NULL"
CellOf(k, c) ==
    CASE k = c -> SqlNull
      [] k < c -> ""
      [] k = c + 1 -> "NULL"
      [] OTHER -> "v"

RowData(k) == [c \in 1..NumCols |-> CellOf(k, c)]

RECURSIVE SortedKeys(_)
SortedKeys(S) ==
    IF S = {} THEN <<>>
    ELSE LET m == CHOOSE x \in S : \A y \in S : x <= y
         IN  <<m>> \o SortedKeys(S \ {m})

\* SPI_tuptable of a SELECT: the visible rows
TupTable(w) == [i \in 1..Cardinality(Visible(w)) |-> RowData(SortedKeys(Visible(w))[i])]

ColNames == [c \in 1..NumCols |-> <<"col", c>>]

\* SPI_execute(query, false, 0): return code, SPI_processed, SPI_tuptable
\* and the world after the statement ran
SPI_execute(w, q) ==
    CASE q.kind = "SELECT" ->
            [ret |-> SPI_OK_SELECT, processed |-> Cardinality(Visible(w)),
             tuptable |-> Array(TupTable(w)), w |-> Log(w, "SPI_execute")]
      [] q.kind = "INSERT" ->
            [ret |-> SPI_OK_INSERT,
             processed |-> IF q.key \in Visible(w) THEN 0 ELSE 1,
             tuptable |-> NullArray,
             w |-> [Log(w, "SPI_execute") EXCEPT !.pending = @ \cup {q.key}]]
      [] OTHER ->
            [ret |-> SPI_ERROR_TRANSACTION, processed |-> 0,
             tuptable |-> NullArray, w |-> Log(w, "SPI_execute")]

\* mutant: a null value is stored as the text "NULL"
CopyCell_as_text(datum) == IF datum = SqlNull THEN "NULL" ELSE datum

\* str = SPI_getvalue(...); NULL is stored as NULL, anything else strdup'ed
CopyCell(datum) == IF datum = SqlNull THEN NullPtr ELSE datum

\* result->values after the copy loop stopped in row r before column c
\* (rowAllocated: result->values[r] was obtained, else malloc stored NULL
\* in it); a loop that ran to the end stopped in row rows+1
CopiedValues(tuptable, rows, cols, r, c, rowAllocated) ==
    [i \in 1..rows |->
        IF i < r THEN Row([j \in 1..cols |-> CopyCell(tuptable[i][j])])
        ELSE IF i = r /\ rowAllocated
        THEN Row([j \in 1..cols |-> IF j < c THEN CopyCell(tuptable[i][j]) ELSE Uninit])
        ELSE IF i = r THEN NullRow
        ELSE UninitRow]

\* the slots pg_embedded_free_result reads: every column name slot when
\* colnames is set, every row slot 0..rows-1 when values is set, and every
\* cell slot 0..cols-1 of a row slot it finds non-NULL; <<0, c>> is a
\* column name slot, <<r, 0>> a row slot, <<r, c>> a cell slot
SlotsRead(r) ==
    (IF r.colnames.null THEN {} ELSE {<<0, c>> : c \in 1..r.cols})
        \cup (IF r.values.null THEN {}
              ELSE {<<i, 0>> : i \in 1..r.rows}
                    \cup {<<i, c>> \in (1..r.rows) \X (1..r.cols) :
                            r.values.at[i].init /\ ~r.values.at[i].null})

\* the slots among them that were never written
UnwrittenSlotsRead(r) ==
    {s \in SlotsRead(r) :
        /\ s[1] # 0
        /\ IF s[2] = 0 THEN ~r.values.at[s[1]].init
           ELSE r.values.at[s[1]].cells[s[2]] = Uninit}

\* pg_embedded_free_result(result): with every slot it reads written, the
\* strings, rows and arrays are freed; a slot never written holds whatever
\* the allocator left there: zero (skipped) or a wild pointer, which is
\* followed and passed to free() (wild: the process does not survive it)
pg_embedded_free_result(w, wild) ==
    IF w.res.allocated /\ UnwrittenSlotsRead(w.res) # {} /\ wild
    THEN Escape(Log(w, "pg_embedded_free_result"), "free of a wild pointer")
    ELSE Log(w, "pg_embedded_free_result")

\* the inputs that select what the engine and the allocator do in one exec
ExecFaultKinds ==
    {"none", "malloc result", "StartTransactionCommand", "PushActiveSnapshot",
     "SPI_connect raises", "SPI_connect fails", "SPI_execute", "malloc colnames",
     "malloc values", "malloc row", "SPI_getvalue", "SPI_finish",
     "CommitTransactionCommand"}

PositionedKinds == {"malloc row", "SPI_getvalue"}

\* the kinds that are an error raised by the engine; `abort` then tells
\* whether the abort in PG_CATCH raises too
RaisingKinds ==
    {"StartTransactionCommand", "PushActiveSnapshot", "SPI_connect raises",
     "SPI_execute", "SPI_getvalue", "SPI_finish", "CommitTransactionCommand"}

\* wild: what a slot of the result that was never written happens to hold
\* is taken for a pointer by pg_embedded_free_result
Fault(kind, row, col, abort) ==
    [kind |-> kind, row |-> row, col |-> col, abort |-> abort, wild |-> FALSE]

\* the faults of the given kinds, at every position of a table of `rows`
\* rows where such a fault can strike
FaultsOf(kinds, rows) ==
    UNION {
        IF k = "SPI_getvalue"
        THEN {Fault(k, r, c, a) : r \in 1..rows, c \in 1..NumCols, a \in BOOLEAN}
        ELSE IF k = "malloc row"
        THEN {Fault(k, r, 0, FALSE) : r \in 1..rows}
                \cup {[Fault(k, r, 0, FALSE) EXCEPT !.wild = TRUE] : r \in 1..(rows - 1)}
        ELSE {Fault(k, 0, 0, a) : a \in IF k \in RaisingKinds THEN BOOLEAN ELSE {FALSE}}
        : k \in kinds}

ExecFaults == FaultsOf(ExecFaultKinds, MaxKey)

----------------------------------------------------------------------------
(* Query facade: pg_embedded_exec                                          *)

\* how control leaves a piece of the PG_TRY() block: it falls through to
\* the next statement, has executed a return, or an error was raised
Fall(w) == [w |-> w, exit |-> "fall"]
Returned(w) == [w |-> w, exit |-> "return"]
Raise(w, event) == [w |-> Log(w, event), exit |-> "raise"]

\* if (SPI_connect() != SPI_OK_CONNECT) { ... return result; }
exec_connect_failed(w, implicit_tx) ==
    LET w1 == PopActiveSnapshot(SetError(w, "SPI_connect failed"))
        w2 == IF implicit_tx THEN AbortCurrentTransaction(w1) ELSE w1
    IN  ReturnInsideTry([w2 EXCEPT !.res.status = -1], "result")

\* if (ret < 0) { ... return result; }
exec_negative_status(w, implicit_tx) ==
    LET w1 == PopActiveSnapshot(SetError(w, "Query execution failed with code"))
        w2 == IF implicit_tx THEN AbortCurrentTransaction(w1) ELSE w1
    IN  ReturnInsideTry(w2, "result")

\* snprintf(..., "Out of memory"); pg_embedded_free_result(result); return NULL;
exec_out_of_memory(w, wild) ==
    LET w1 == pg_embedded_free_result(SetError(w, "Out of memory"), wild)
    IN  IF w1.alive THEN ReturnInsideTry(w1, "NULL") ELSE w1

\* if (ret > 0 && SPI_tuptable != NULL) { copy column names and values }
exec_copy(w, tuptable, f) ==
    LET rows == w.res.rows
        cols == NumCols
        w1 == [w EXCEPT !.res.cols = cols]
        w2 == [Log(w1, "copy colnames") EXCEPT !.res.colnames = Array(ColNames)]
        Vals(r, c, a) == Array(CopiedValues(tuptable, rows, cols, r, c, a))
    IN  IF f.kind = "malloc colnames"
        THEN Returned(exec_out_of_memory(w1, f.wild))
        ELSE IF f.kind = "malloc values"
        THEN Returned(exec_out_of_memory(w2, f.wild))
        ELSE IF f.kind = "malloc row" /\ f.row <= rows
        THEN Returned(exec_out_of_memory(
                [w2 EXCEPT !.res.values = Vals(f.row, 1, FALSE)], f.wild))
        ELSE IF f.kind = "SPI_getvalue" /\ f.row <= rows /\ f.col <= cols
        THEN Raise([w2 EXCEPT !.res.values = Vals(f.row, f.col, TRUE)],
                   "SPI_getvalue raised")
        ELSE Fall([Log(w2, "copy values") EXCEPT
                        !.res.values = Vals(rows + 1, 1, FALSE)])

\* mutant: the commit is not conditional on implicit_tx
exec_finish_always_commits(w, implicit_tx, f) ==
    IF f.kind = "SPI_finish"
    THEN Raise(w, "SPI_finish raised")
    ELSE LET w1 == PopActiveSnapshot(SPI_finish(w))
         IN  IF f.kind = "CommitTransactionCommand"
             THEN Raise(w1, "CommitTransactionCommand raised")
             ELSE Fall(CommitTransactionCommand(w1))

\* mutant: the implicit transaction is never committed
exec_finish_never_commits(w, implicit_tx, f) ==
    IF f.kind = "SPI_finish"
    THEN Raise(w, "SPI_finish raised")
    ELSE Fall(PopActiveSnapshot(SPI_finish(w)))

\* SPI_finish(); PopActiveSnapshot(); if (implicit_tx) CommitTransactionCommand();
exec_finish(w, implicit_tx, f) ==
    IF f.kind = "SPI_finish"
    THEN Raise(w, "SPI_finish raised")
    ELSE LET w1 == PopActiveSnapshot(SPI_finish(w))
         IN  IF ~implicit_tx THEN Fall(w1)
             ELSE IF f.kind = "CommitTransactionCommand"
             THEN Raise(w1, "CommitTransactionCommand raised")
             ELSE Fall(CommitTransactionCommand(w1))

\* mutant: the interface is closed and the transaction committed first,
\* the tuple table is copied afterwards
exec_run_copies_late(w, q, implicit_tx, f) ==
    IF f.kind = "SPI_execute"
    THEN Raise(w, "SPI_execute raised")
    ELSE LET x == SPI_execute(w, q)
             w1 == [x.w EXCEPT !.res = [@ EXCEPT !.status = x.ret,
                                                 !.rows = x.processed, !.cols = 0,
                                                 !.values = NullArray,
                                                 !.colnames = NullArray]]
         IN  IF x.ret < 0
             THEN Returned(exec_negative_status(w1, implicit_tx))
             ELSE LET d == exec_finish(w1, implicit_tx, f)
                  IN  IF d.exit = "fall" /\ x.ret > 0 /\ ~x.tuptable.null
                      THEN exec_copy(d.w, x.tuptable.at, f)
                      ELSE d

\* ret = SPI_execute(...); fill the result; the two exits that follow
exec_run(w, q, implicit_tx, f) ==
    IF f.kind = "SPI_execute"
    THEN Raise(w, "SPI_execute raised")
    ELSE LET x == SPI_execute(w, q)
             w1 == [x.w EXCEPT !.res = [@ EXCEPT !.status = x.ret,
                                                 !.rows = x.processed, !.cols = 0,
                                                 !.values = NullArray,
                                                 !.colnames = NullArray]]
         IN  IF x.ret < 0
             THEN Returned(exec_negative_status(w1, implicit_tx))
             ELSE LET c == IF x.ret > 0 /\ ~x.tuptable.null
                           THEN exec_copy(w1, x.tuptable.at, f)
                           ELSE Fall(w1)
                  IN  IF c.exit = "fall" THEN exec_finish(c.w, implicit_tx, f) ELSE c

\* the PG_TRY() block
exec_try(w, q, f) ==
    LET implicit_tx == ~IsTransactionState(w)
    IN  IF implicit_tx /\ (f.kind = "StartTransactionCommand" \/ ~CanStart(w))
        THEN Raise(w, "StartTransactionCommand raised")
        ELSE LET w1 == IF implicit_tx THEN StartTransactionCommand(w, "exec") ELSE w
             IN  IF f.kind = "PushActiveSnapshot"
                 THEN Raise(w1, "PushActiveSnapshot raised")
                 ELSE LET w2 == PushActiveSnapshot(w1)
                      IN  IF f.kind = "SPI_connect raises"
                          THEN Raise(w2, "SPI_connect raised")
                          ELSE IF f.kind = "SPI_connect fails"
                          THEN Returned(exec_connect_failed(w2, implicit_tx))
                          ELSE exec_run(SPI_connect(w2), q, implicit_tx, f)

\* the PG_CATCH() block
exec_catch(w, f) ==
    LET w1 == SetError(w, "Query failed: <engine message>")
    IN  IF f.abort /\ CanAbortRaise(w1)
        THEN Escape(AbortRaised(w1), "error outside PG_TRY")
        ELSE Return([AbortCurrentTransaction(w1) EXCEPT !.res.status = -1], "result")

\* pg_embedded_exec
pg_embedded_exec(w, query, f) ==
    IF ~w.init
    THEN Return(SetError(w, "Not initialized"), "NULL")
    ELSE IF query = NullQuery
    THEN Return(SetError(w, "NULL query"), "NULL")
    ELSE IF f.kind = "malloc result"
    THEN Return(SetError(w, "Out of memory"), "NULL")
    ELSE LET t == exec_try([w EXCEPT !.res = ZeroResult], query, f)
         IN  CASE t.exit = "raise" -> exec_catch(t.w, f)
               [] t.exit = "fall" -> Return(t.w, "result")
               [] OTHER -> t.w

----------------------------------------------------------------------------
(* Lifecycle controller: pg_embedded_init_internal                         *)

\* mutant: the database connection is made before shared memory and the
\* process control block exist
steps_connect_early(allow_system_table_mods) ==
    <<"MemoryContextInit", "SetDataDir", "InitStandaloneProcess",
      "InitializeGUCOptions">>
    \o (IF allow_system_table_mods THEN <<"SetConfigOption">> ELSE <<>>)
    \o <<"SelectConfigFiles", "checkDataDir", "ChangeToDataDir",
         "CreateDataDirLockFile", "LocalProcessControlFile",
         "process_shared_preload_libraries", "InitializeMaxBackends",
         "InitPostmasterChildSlots", "InitializeFastPathLocks",
         "process_shmem_requests", "InitializeShmemGUCs",
         "InitializeWalConsistencyChecking", "InitPostgres",
         "CreateSharedMemoryAndSemaphores",
         "set_max_safe_fds", "GetCurrentTimestamp", "InitProcess", "BaseInit",
         "SetProcessingMode", "whereToSendOutput",
         "AllocSetContextCreate",
         "StartTransactionCommand", "SPI_connect", "SPI_finish",
         "CommitTransactionCommand">>

\* mutant: the bring-up of the older revision's ending: the database
\* interface is engaged and left engaged, nothing is committed
steps_smoke_test_left_open(allow_system_table_mods) ==
    <<"MemoryContextInit", "SetDataDir", "InitStandaloneProcess",
      "InitializeGUCOptions">>
    \o (IF allow_system_table_mods THEN <<"SetConfigOption">> ELSE <<>>)
    \o <<"SelectConfigFiles", "checkDataDir", "ChangeToDataDir",
         "CreateDataDirLockFile", "LocalProcessControlFile",
         "process_shared_preload_libraries", "InitializeMaxBackends",
         "InitPostmasterChildSlots", "InitializeFastPathLocks",
         "process_shmem_requests", "InitializeShmemGUCs",
         "InitializeWalConsistencyChecking",
         "CreateSharedMemoryAndSemaphores",
         "set_max_safe_fds", "GetCurrentTimestamp", "InitProcess", "BaseInit",
         "InitPostgres", "SetProcessingMode", "whereToSendOutput",
         "AllocSetContextCreate",
         "StartTransactionCommand", "SPI_connect">>

\* mutant: allow_system_table_mods is set after the configuration files
\* were read
steps_mods_after_config_files(allow_system_table_mods) ==
    <<"MemoryContextInit", "SetDataDir", "InitStandaloneProcess",
      "InitializeGUCOptions", "SelectConfigFiles">>
    \o (IF allow_system_table_mods THEN <<"SetConfigOption">> ELSE <<>>)
    \o <<"checkDataDir", "ChangeToDataDir",
         "CreateDataDirLockFile", "LocalProcessControlFile",
         "process_shared_preload_libraries", "InitializeMaxBackends",
         "InitPostmasterChildSlots", "InitializeFastPathLocks",
         "process_shmem_requests", "InitializeShmemGUCs",
         "InitializeWalConsistencyChecking", "CreateSharedMemoryAndSemaphores",
         "set_max_safe_fds", "GetCurrentTimestamp", "InitProcess", "BaseInit",
         "InitPostgres", "SetProcessingMode", "whereToSendOutput",
         "AllocSetContextCreate",
         "StartTransactionCommand", "SPI_connect", "SPI_finish",
         "CommitTransactionCommand">>

\* the engine calls of the bring-up sequence, in the order of the code
InitSteps(allow_system_table_mods) ==
    <<"MemoryContextInit", "SetDataDir", "InitStandaloneProcess",
      "InitializeGUCOptions">>
    \o (IF allow_system_table_mods THEN <<"SetConfigOption">> ELSE <<>>)
    \o <<"SelectConfigFiles", "checkDataDir", "ChangeToDataDir",
         "CreateDataDirLockFile", "LocalProcessControlFile",
         "process_shared_preload_libraries", "InitializeMaxBackends",
         "InitPostmasterChildSlots", "InitializeFastPathLocks",
         "process_shmem_requests", "InitializeShmemGUCs",
         "InitializeWalConsistencyChecking", "CreateSharedMemoryAndSemaphores",
         "set_max_safe_fds", "GetCurrentTimestamp", "InitProcess", "BaseInit",
         "InitPostgres", "SetProcessingMode", "whereToSendOutput",
         "AllocSetContextCreate",
         "StartTransactionCommand", "SPI_connect", "SPI_finish",
         "CommitTransactionCommand">>

\* the steps that are plain assignments: they cannot raise
Assignments == {"whereToSendOutput"}

IndexOf(seq, x) == CHOOSE i \in 1..Len(seq) : seq[i] = x

\* what one bring-up step does to the modelled state
StepEffect(w, name) ==
    CASE name = "StartTransactionCommand" -> StartTransactionCommand(w, "init")
      [] name = "SPI_connect" -> SPI_connect(w)
      [] name = "SPI_finish" -> SPI_finish(w)
      [] name = "CommitTransactionCommand" -> CommitTransactionCommand(w)
      [] OTHER -> Log(w, name)

\* the steps i .. stop-1, run in order
RECURSIVE RunSteps(_, _, _, _)
RunSteps(w, steps, i, stop) ==
    IF i >= stop \/ i > Len(steps) THEN w
    ELSE RunSteps(StepEffect(w, steps[i]), steps, i + 1, stop)

\* { .fsync = true, .synchronous_commit = true, .full_page_writes = true }
DefaultConfig == [fsync |-> TRUE, synchronous_commit |-> TRUE, full_page_writes |-> TRUE]

Configs == [fsync : BOOLEAN, synchronous_commit : BOOLEAN, full_page_writes : BOOLEAN]

\* mutant: the flags are handed to the running engine at once
set_config_at_once(w, config) ==
    Return([w EXCEPT !.config = config, !.guc = config], "void")

\* pg_embedded_set_config: the flags are kept for the next bring-up
pg_embedded_set_config(w, config) == Return([w EXCEPT !.config = config], "void")

\* the bring-up hands the flags kept by pg_embedded_set_config to the
\* engine once InitializeGUCOptions has set every option to its default
ApplyConfig(w, steps, stop) ==
    IF stop > IndexOf(steps, "InitializeGUCOptions")
    THEN [w EXCEPT !.guc = w.config]
    ELSE w

\* the steps before `stop`, run from the first one: the steps that precede
\* the empty transaction only add to the trace
RunInit(w, steps, stop) ==
    LET start == IndexOf(steps, "StartTransactionCommand")
        plain == IF stop < start THEN stop ELSE start
    IN  RunSteps([ApplyConfig(w, steps, stop) EXCEPT
                     !.trace = @ \o SubSeq(steps, 1, plain - 1)],
                 steps, plain, stop)

\* the step at which the bring-up raises (0: none), given the one the
\* fault input names: StartTransactionCommand raises by itself when a
\* transaction was left behind by an earlier failure
RaiseAt(w, steps, failAt) ==
    LET start == IndexOf(steps, "StartTransactionCommand")
    IN  IF ~CanStart(w) /\ (failAt = 0 \/ failAt > start) THEN start ELSE failAt

\* the call of a bring-up step that raises: the step has no effect
Raised(w, name) == Log(Log(w, name), "raised")

\* mutant: pg_initialized is set before the bring-up, not after it
init_try_flag_first(w, allow_system_table_mods, failAt, connectFails) ==
    LET steps == InitSteps(allow_system_table_mods)
        raiseAt == RaiseAt(w, steps, failAt)
        w0 == [w EXCEPT !.init = TRUE]
    IN  IF raiseAt # 0
        THEN Return(SetError(Raised(RunInit(w0, steps, raiseAt), steps[raiseAt]),
                             "Initialization failed: <engine message>"), "-1")
        ELSE IF connectFails
        THEN ReturnInsideTry(
                 AbortCurrentTransaction(
                     SetError(RunInit(w0, steps, IndexOf(steps, "SPI_connect")),
                              "SPI_connect failed")), "-1")
        ELSE Return(RunInit(w0, steps, Len(steps) + 1), "0")

\* PG_TRY() ... PG_CATCH() ... PG_END_TRY(); return 0;
\* failAt: the step that raises (0: none), connectFails: SPI_connect
\* returns an error code
init_try(w, allow_system_table_mods, failAt, connectFails) ==
    LET steps == InitSteps(allow_system_table_mods)
        raiseAt == RaiseAt(w, steps, failAt)
    IN  IF raiseAt # 0
        THEN \* PG_CATCH
             Return(SetError(Raised(RunInit(w, steps, raiseAt), steps[raiseAt]),
                             "Initialization failed: <engine message>"), "-1")
        ELSE IF connectFails
        THEN ReturnInsideTry(
                 AbortCurrentTransaction(
                     SetError(RunInit(w, steps, IndexOf(steps, "SPI_connect")),
                              "SPI_connect failed")), "-1")
        ELSE Return([RunInit(w, steps, Len(steps) + 1) EXCEPT !.init = TRUE], "0")

\* mutant: the pg_initialized check is missing, the bring-up runs again
init_reruns(w, argsOk, allow_system_table_mods, failAt, connectFails) ==
    IF ~argsOk
    THEN Return(SetError(w, "Invalid arguments"), "-1")
    ELSE init_try(w, allow_system_table_mods, failAt, connectFails)

\* pg_embedded_init_internal
pg_embedded_init_internal(w, argsOk, allow_system_table_mods, failAt, connectFails) ==
    IF w.init
    THEN Return(SetError(w, "Already initialized"), "0")
    ELSE IF ~argsOk
    THEN Return(SetError(w, "Invalid arguments"), "-1")
    ELSE init_try(w, allow_system_table_mods, failAt, connectFails)

\* pg_embedded_init
pg_embedded_init(w, argsOk, failAt, connectFails) ==
    pg_embedded_init_internal(w, argsOk, FALSE, failAt, connectFails)

\* pg_embedded_init_with_system_mods
pg_embedded_init_with_system_mods(w, argsOk, failAt, connectFails) ==
    pg_embedded_init_internal(w, argsOk, TRUE, failAt, connectFails)

----------------------------------------------------------------------------
(* The cluster bootstrapper (initdb_simple.c).  The file system is a set   *)
(* of directories and a set of files, with the text of the scratch script  *)
(* and whether the system catalogs have been created; text is a sequence   *)
(* of characters.                                                          *)

pg_data == "pg_data"                                  \* the path given by the host
pg_wal == "pg_wal"
PG_VERSION == "PG_VERSION"
postgresql_conf == "postgresql.conf"
bki_src_path == "src/include/catalog/postgres.bki"
bki_temp_path == "/tmp/pg_bootstrap.bki"

subdirs ==
    <<"global", "pg_wal/archive_status", "pg_commit_ts", "pg_dynshmem",
      "pg_notify", "pg_serial", "pg_snapshots", "pg_subtrans", "pg_twophase",
      "pg_multixact", "pg_multixact/members", "pg_multixact/offsets", "base",
      "base/1", "pg_replslot", "pg_tblspc", "pg_stat", "pg_stat_tmp", "pg_xact",
      "pg_logical", "pg_logical/snapshots", "pg_logical/mappings">>

Range(s) == {s[i] : i \in 1..Len(s)}

\* the arguments of the host (test_initdb.c) and what the build makes of
\* NAMEDATALEN, sizeof(void *) and pg_char_to_encoding("UTF8")
\* char output[8192]
OutputSize == 8192

\* the user name and the locale the host of the facade passes to every
\* bootstrap
DefaultUserName == <<"p", "o", "s", "t", "g", "r", "e", "s">>
DefaultLocale == <<"C">>

\* a chain that tests a name before a longer name beginning with it
Tokens_short_name_first ==
    <<[name |-> <<"L", "O", "C", "A", "L", "E">>, value |-> locale_g],
      [name |-> <<"L", "O", "C", "A", "L", "E", "_", "P", "R", "O", "V", "I", "D", "E", "R">>,
       value |-> <<"c">>],
      [name |-> <<"P", "O", "S", "T", "G", "R", "E", "S">>, value |-> username_g]>>

\* the token names in the order the loop tests them, with their replacements
Tokens ==
    <<
      [name |-> <<"N", "A", "M", "E", "D", "A", "T", "A", "L", "E", "N">>,
        value |-> <<"6", "4">>],
      [name |-> <<"S", "I", "Z", "E", "O", "F", "_", "P", "O", "I", "N", "T", "E", "R">>,
        value |-> <<"8">>],
      [name |-> <<"A", "L", "I", "G", "N", "O", "F", "_", "P", "O", "I", "N", "T", "E", "R">>,
        value |-> <<"d">>],
      [name |-> <<"P", "O", "S", "T", "G", "R", "E", "S">>,
        value |-> username_g],
      [name |-> <<"E", "N", "C", "O", "D", "I", "N", "G">>,
        value |-> <<"6">>],
      [name |-> <<"L", "C", "_", "C", "O", "L", "L", "A", "T", "E">>,
        value |-> locale_g],
      [name |-> <<"L", "C", "_", "C", "T", "Y", "P", "E">>,
        value |-> locale_g],
      [name |-> <<"D", "A", "T", "L", "O", "C", "A", "L", "E">>,
        value |-> <<"_", "n", "u", "l", "l", "_">>],
      [name |-> <<"I", "C", "U", "_", "R", "U", "L", "E", "S">>,
        value |-> <<"_", "n", "u", "l", "l", "_">>],
      [name |-> <<"L", "O", "C", "A", "L", "E", "_", "P", "R", "O", "V", "I", "D", "E", "R">>,
        value |-> <<"c">>]>>


\* strncmp(in, name, n) == 0, with `in` at position p of line l
StartsWith(l, p, name) ==
    /\ p + Len(name) - 1 <= Len(l)
    /\ SubSeq(l, p, p + Len(name) - 1) = name

\* the branch of the if / else-if chain taken at position p: the first
\* token of the chain whose name is found there, 0 when none is
FirstMatch(l, p) ==
    LET found == {i \in 1..Len(Tokens) : StartsWith(l, p, Tokens[i].name)}
    IN  IF found = {} THEN 0
        ELSE CHOOSE i \in found : \A j \in found : i <= j

\* mutant: the text put in place of a token is scanned for a token name
\* once more before it is written
ScanStep_rescans(l, p, out) ==
    LET t == FirstMatch(l, p)
    IN  IF t = 0 THEN [pos |-> p + 1, output |-> Append(out, l[p])]
        ELSE LET v == Tokens[t].value
                 u == FirstMatch(v, 1)
             IN  [pos |-> p + Len(Tokens[t].name),
                  output |-> out \o (IF u = 0 THEN v
                                     ELSE Tokens[u].value
                                            \o SubSeq(v, Len(Tokens[u].name) + 1, Len(v)))]

\* one turn of the inner while loop
ScanStep(l, p, out) ==
    LET t == FirstMatch(l, p)
    IN  IF t = 0 THEN [pos |-> p + 1, output |-> Append(out, l[p])]
        ELSE [pos |-> p + Len(Tokens[t].name), output |-> out \o Tokens[t].value]

\* the inner while loop, from position p to the end of the line
RECURSIVE ScanFrom(_, _, _)
ScanFrom(l, p, out) ==
    IF p > Len(l) THEN out
    ELSE LET s == ScanStep(l, p, out) IN ScanFrom(l, s.pos, s.output)

\* the output buffer handed to fputs for one line of the template
SubstituteLine(l) == ScanFrom(l, 1, <<>>)

\* the catalog template the bootstrapper reads, cut down to the line that
\* creates template1
Template ==
    <<<<"i", "n", "s", "e", "r", "t", " ", "(", " ", "1", " ",
        "E", "N", "C", "O", "D", "I", "N", "G", " ",
        "L", "C", "_", "C", "O", "L", "L", "A", "T", "E", " ",
        "L", "C", "_", "C", "T", "Y", "P", "E", " ", ")", "\n">>>>

\* what the environment makes fail in one run of the bootstrapper: the
\* library call and the path it is made on, or nothing
NoFault == [call |-> "none", path |-> ""]
Fails(f, c, path) == f = [call |-> c, path |-> path]

\* fprintf(stderr, ...) naming a path, then exit(1): the process is over
Die(w, msg, path) == Escape(Log(Log(w, msg), path), "exit(1)")

StdinOfProcess == [fd |-> "original", stream |-> "open"]

\* mkdir(path, mode) < 0: the directory is there already (EEXIST), or the
\* environment refuses
MkdirFails(w, f, path) == path \in w.fs.dirs \/ Fails(f, "mkdir", path)

Mkdir(w, path) == [w EXCEPT !.fs.dirs = @ \cup {path}]

\* create_data_directory treating an existing directory like any other error
create_data_directory_strict(w, f) ==
    IF MkdirFails(w, f, pg_data)
    THEN Die(w, "ERROR: could not create directory", pg_data)
    ELSE Mkdir(w, pg_data)

\* create_data_directory
create_data_directory(w, f) ==
    IF ~MkdirFails(w, f, pg_data) THEN Mkdir(w, pg_data)
    ELSE IF pg_data \in w.fs.dirs
         THEN Log(w, "WARNING: directory exists")
         ELSE Die(w, "ERROR: could not create directory", pg_data)

\* create_xlog_symlink reporting the error and going on
create_xlog_symlink_unchecked(w, f) ==
    IF MkdirFails(w, f, pg_wal)
    THEN Log(Log(w, "ERROR: could not create directory"), pg_wal)
    ELSE Mkdir(w, pg_wal)

\* create_xlog_symlink
create_xlog_symlink(w, f) ==
    IF MkdirFails(w, f, pg_wal)
    THEN Die(w, "ERROR: could not create directory", pg_wal)
    ELSE Mkdir(w, pg_wal)

\* create_subdirectories, from the i-th entry of subdirs on
RECURSIVE create_subdirectories_from(_, _, _)
create_subdirectories_from(w, f, i) ==
    IF i > Len(subdirs) THEN w
    ELSE IF MkdirFails(w, f, subdirs[i])
         THEN Die(w, "ERROR: could not create directory", subdirs[i])
         ELSE create_subdirectories_from(Mkdir(w, subdirs[i]), f, i + 1)

create_subdirectories(w, f) == create_subdirectories_from(w, f, 1)

\* fopen(path, "w") succeeded: the file exists from now on
Created(w, path) == [w EXCEPT !.fs.files = @ \cup {path}]

\* write_version_file
write_version_file(w, f) ==
    IF Fails(f, "fopen", PG_VERSION)
    THEN Die(w, "ERROR: could not open for writing", PG_VERSION)
    ELSE IF Fails(f, "write", PG_VERSION)
         THEN Die(Created(w, PG_VERSION), "ERROR: could not write file", PG_VERSION)
         ELSE Created(w, PG_VERSION)

\* write_empty_config_file
write_empty_config_file(w, f) ==
    IF Fails(f, "fopen", postgresql_conf)
    THEN Die(w, "ERROR: could not open for writing", postgresql_conf)
    ELSE IF Fails(f, "write", postgresql_conf)
         THEN Die(Created(w, postgresql_conf), "ERROR: could not write file",
                  postgresql_conf)
         ELSE Created(w, postgresql_conf)

\* the copy of the template into the scratch file, token by token
CopyTemplate(w, f) ==
    IF bki_src_path \notin w.fs.files \/ Fails(f, "fopen", bki_src_path)
    THEN Die(w, "ERROR: could not open", bki_src_path)
    ELSE IF Fails(f, "fopen", bki_temp_path)
         THEN Die(w, "ERROR: could not create", bki_temp_path)
         ELSE [Created(w, bki_temp_path) EXCEPT
                  !.fs.script = [i \in 1..Len(Template) |-> SubstituteLine(Template[i])]]

\* saved_stdin = dup(STDIN_FILENO); freopen(bki_temp_path, "r", stdin):
\* freopen closes the stream first, whether or not it can open the file
\* then; the result of dup is not tested, and dup is taken to succeed
RedirectStdin(w, f) ==
    IF Fails(f, "freopen", bki_temp_path)
    THEN Die([w EXCEPT !.stdin = [fd |-> "closed", stream |-> "closed"]],
             "ERROR: could not freopen stdin", bki_temp_path)
    ELSE [w EXCEPT !.stdin = [fd |-> "script", stream |-> "open"]]

\* BootstrapModeMain(argc, argv, false): the engine's bootstrap interpreter
\* reads the script from standard input and creates the system catalogs;
\* an error it raises finds no PG_TRY() block of the bootstrapper
BootstrapModeMain(w, f) ==
    IF Fails(f, "BootstrapModeMain", bki_temp_path)
    THEN Escape(Log(w, "BootstrapModeMain"), "error outside PG_TRY")
    ELSE [Log(w, "BootstrapModeMain") EXCEPT !.fs.catalogs = TRUE]

\* fclose(stdin); dup2(saved_stdin, STDIN_FILENO); close(saved_stdin): the
\* descriptor is the original channel again, the stream stays closed
RestoreStdin(w) == [w EXCEPT !.stdin = [fd |-> "original", stream |-> "closed"]]

\* unlink(bki_temp_path)
Unlink(w, path) == [w EXCEPT !.fs.files = @ \ {path}, !.fs.script = <<>>]

\* the rest of the function runs unless the process ended in w
AndThen(w, next) == IF w.alive THEN next ELSE w

\* the bootstrap block of pg_embedded_initdb_main
BootstrapTemplate(w, f) ==
    LET w1 == CopyTemplate(w, f)
        w2 == RedirectStdin(w1, f)
        w3 == BootstrapModeMain(Log(w2, "MemoryContextInit"), f)
        w4 == Unlink(RestoreStdin(w3), bki_temp_path)
    IN  AndThen(w1, AndThen(w2, AndThen(w3, w4)))

\* the directories and files of the cluster
CreateLayout(w, f) ==
    LET w1 == create_data_directory(w, f)
        w2 == create_xlog_symlink(w1, f)
        w3 == create_subdirectories(w2, f)
        w4 == write_version_file(w3, f)
        w5 == write_empty_config_file(w4, f)
    IN  AndThen(w1, AndThen(w2, AndThen(w3, AndThen(w4, w5))))

\* pg_embedded_initdb_main without the test of the version marker
initdb_main_no_short_circuit(w, argsOk, f) ==
    IF ~argsOk
    THEN Return(Log(w, "ERROR: data_dir and username are required"), "-1")
    ELSE LET w1 == CreateLayout(w, f)
             w2 == BootstrapTemplate(w1, f)
         IN  AndThen(w1, AndThen(w2, Return(w2, "0")))

\* pg_embedded_initdb_main
pg_embedded_initdb_main(w, argsOk, f) ==
    IF ~argsOk
    THEN Return(Log(w, "ERROR: data_dir and username are required"), "-1")
    ELSE IF PG_VERSION \in w.fs.files
         THEN Return(Log(w, "WARNING: database directory already initialized"), "0")
         ELSE LET w1 == CreateLayout(w, f)
                  w2 == BootstrapTemplate(w1, f)
              IN  AndThen(w1, AndThen(w2, Return(w2, "0")))

\* pg_embedded_initdb
pg_embedded_initdb(w, argsOk, f) ==
    IF ~argsOk
    THEN Return(SetError(w, "data_dir and username are required"), "-1")
    ELSE LET w1 == pg_embedded_initdb_main(w, argsOk, f)
         IN  IF ~w1.alive THEN w1
             ELSE IF w1.rc # "0" THEN Return(SetError(w1, "initdb failed"), "-1")
             ELSE Return(w1, "0")

----------------------------------------------------------------------------
(* The host: one public call at a time                                     *)

\* the file system before any bootstrap: no cluster directory, the catalog
\* template where the bootstrapper looks for it
NoCluster == [dirs |-> {}, files |-> {bki_src_path}, script |-> <<>>, catalogs |-> FALSE]

\* a process that has just started
NewProcessState ==
    /\ pg_initialized = FALSE
    /\ pg_error_msg = ""
    /\ xact = "DEFAULT"
    /\ pending = {}
    /\ snap = 0
    /\ spi = 0
    /\ exc = "clean"
    /\ alive = TRUE
    /\ call = [op |-> "none", query |-> NullQuery]
    /\ trace = <<>>
    /\ rc = "0"
    /\ dropped = {}
    /\ opener = "none"
    /\ res = NoResult
    /\ wrote = FALSE
    /\ stdin = StdinOfProcess
    /\ pg_config = DefaultConfig
    /\ guc = DefaultConfig

\* /tmp/pg_bootstrap.bki does not exist; path: the file the name leads to
\* (0: none), data: the contents of the files made under that name, by the
\* process that made them
NoScratch == [path |-> 0, data |-> <<>>]

\* no bootstraps running side by side
NoPar == boot = <<>> /\ scratch = NoScratch

\* no template line is being substituted
NoScan ==
    /\ line = <<>>
    /\ pos = 1
    /\ output = <<>>
    /\ username_g = DefaultUserName
    /\ locale_g = DefaultLocale

Init ==
    /\ NewProcessState
    /\ NoScan
    /\ NoPar
    /\ committed = {}
    /\ fs = NoCluster

\* the two public entry points of the bring-up
StartEntries == {"init", "init_with_system_mods"}

\* the bring-up step that cannot succeed on the cluster directory as it is
\* (0: none): the configuration file is read by SelectConfigFiles, the
\* layout and the version marker are verified by checkDataDir, the catalogs
\* are first needed by LocalProcessControlFile
Unusable(w, allow) ==
    LET steps == InitSteps(allow)
    IN  IF ~(pg_data \in w.fs.dirs /\ postgresql_conf \in w.fs.files)
        THEN IndexOf(steps, "SelectConfigFiles")
        ELSE IF ~(PG_VERSION \in w.fs.files
                  /\ ({pg_wal} \cup Range(subdirs)) \subseteq w.fs.dirs)
        THEN IndexOf(steps, "checkDataDir")
        ELSE IF ~w.fs.catalogs
        THEN IndexOf(steps, "LocalProcessControlFile")
        ELSE 0

\* the engine behaviours that make a difference to the call about to be made
InitFaultsFor(w, argsOk, allow) ==
    IF w.init \/ ~argsOk THEN {[failAt |-> 0, connectFails |-> FALSE]}
    ELSE LET all == [failAt : {i \in 1..Len(InitSteps(allow)) :
                                  InitSteps(allow)[i] \notin Assignments},
                     connectFails : {FALSE}]
                        \cup [failAt : {0}, connectFails : BOOLEAN]
             last == Unusable(w, allow)
         IN  IF last = 0 THEN all ELSE {x \in all : x.failAt \in 1..last}

\* what can go wrong in the bootstrap about to run
InitdbFaultsFor(w, argsOk) ==
    IF ~argsOk \/ PG_VERSION \in w.fs.files THEN {NoFault}
    ELSE {NoFault}
            \cup [call : {"mkdir"},
                  path : ({pg_data, pg_wal} \cup Range(subdirs)) \ w.fs.dirs]
            \cup [call : {"fopen", "write"}, path : {PG_VERSION, postgresql_conf}]
            \cup [call : {"fopen"}, path : {bki_src_path, bki_temp_path}]
            \cup [call : {"freopen", "BootstrapModeMain"}, path : {bki_temp_path}]

ExecFaultsFor(w, q) ==
    IF ~w.init \/ q = NullQuery THEN FaultsOf({"none"}, 0)
    ELSE LET copying == IF q.kind = "SELECT"
                        THEN {"malloc colnames", "malloc values"} \cup PositionedKinds
                        ELSE {}
             implicit == IF IsTransactionState(w) THEN {}
                         ELSE {"StartTransactionCommand", "CommitTransactionCommand"}
             always == ExecFaultKinds
                        \ ({"malloc colnames", "malloc values",
                             "StartTransactionCommand", "CommitTransactionCommand"}
                            \cup PositionedKinds)
         IN  {f \in FaultsOf(always \cup copying \cup implicit, Cardinality(Visible(w))) :
                (f.abort /\ f.kind = "StartTransactionCommand") => ~CanStart(w)}

TxFaultsFor(w, inTransaction) ==
    IF ~w.init \/ IsTransactionState(w) # inTransaction THEN {"none"} ELSE TxFaults

\* the host is running and between two calls
Idle == alive /\ call.op = "none"

Initdb ==
    /\ Idle
    /\ \E argsOk \in BOOLEAN : \E f \in InitdbFaultsFor(World, argsOk) :
            LET after == pg_embedded_initdb(World, argsOk, f)
            IN  Install(after, [op |-> "initdb", query |-> NullQuery,
                                argsOk |-> argsOk])

Start ==
    /\ Idle
    /\ \E argsOk \in BOOLEAN, entry \in StartEntries :
       \E x \in InitFaultsFor(World, argsOk, entry = "init_with_system_mods") :
         LET after == IF entry = "init"
                      THEN pg_embedded_init(World, argsOk, x.failAt, x.connectFails)
                      ELSE pg_embedded_init_with_system_mods(World, argsOk, x.failAt,
                                                             x.connectFails)
         IN  Install(after, [op |-> entry, query |-> NullQuery])

Exec ==
    /\ Idle
    /\ snap < MaxLeak
    /\ spi < MaxLeak
    /\ \E q \in Queries \cup {NullQuery} : \E f \in ExecFaultsFor(World, q) :
            LET after == pg_embedded_exec(World, q, f)
            IN  Install(after, [op |-> "exec", query |-> q])

Begin ==
    /\ Idle
    /\ \E fault \in TxFaultsFor(World, FALSE) :
            LET after == pg_embedded_begin(World, fault)
            IN  Install(after, [op |-> "begin", query |-> NullQuery])

Commit ==
    /\ Idle
    /\ \E fault \in TxFaultsFor(World, TRUE) :
            LET after == pg_embedded_commit(World, fault)
            IN  Install(after, [op |-> "commit", query |-> NullQuery])

Rollback ==
    /\ Idle
    /\ \E fault \in TxFaultsFor(World, TRUE) \ {"raise, abort raises"} :
            LET after == pg_embedded_rollback(World, fault)
            IN  Install(after, [op |-> "rollback", query |-> NullQuery])

Shutdown ==
    /\ Idle
    /\ \E fault \in {"none", "raise"}, abortRaised \in BOOLEAN :
            /\ abortRaised => pg_initialized /\ fault = "raise"
            /\ LET after == pg_embedded_shutdown(World, fault, abortRaised)
               IN  Install(after, [op |-> "shutdown", query |-> NullQuery])

\* the call has returned: the host takes the return value, releases the
\* result if it got one (pg_embedded_free_result), and goes on to its next
\* call
HostContinues ==
    /\ alive
    /\ call.op # "none"
    /\ \E wild \in BOOLEAN :
            alive' = (IF call.op = "exec" /\ rc = "result"
                      THEN pg_embedded_free_result([World EXCEPT !.res = res], wild).alive
                      ELSE TRUE)
    /\ call' = [op |-> "none", query |-> NullQuery]
    /\ trace' = <<>>
    /\ rc' = "0"
    /\ dropped' = {}
    /\ res' = NoResult
    /\ wrote' = FALSE
    /\ UNCHANGED <<pg_initialized, pg_error_msg, xact, committed, pending, snap,
                   spi, exc, opener, fs, stdin, scan, pg_config, guc, par>>

Next ==
    Initdb \/ Start \/ Exec \/ Begin \/ Commit \/ Rollback \/ Shutdown \/ HostContinues

Spec == Init /\ [][Next]_vars

\* The bootstrapper on its own, as test_initdb.c runs it: the path may be
\* an empty directory already, the template may be missing from where the
\* process runs, and after a fatal exit the next process finds the file
\* system the way the last one left it.
BootInit ==
    /\ NewProcessState
    /\ NoScan
    /\ NoPar
    /\ committed = {}
    /\ \E d \in SUBSET {pg_data}, t \in SUBSET {bki_src_path} :
            fs = [NoCluster EXCEPT !.dirs = d, !.files = t]

NewProcess ==
    /\ ~alive
    /\ pg_initialized' = FALSE
    /\ pg_error_msg' = ""
    /\ xact' = "DEFAULT"
    /\ pending' = {}
    /\ snap' = 0
    /\ spi' = 0
    /\ exc' = "clean"
    /\ alive' = TRUE
    /\ call' = [op |-> "none", query |-> NullQuery]
    /\ trace' = <<>>
    /\ rc' = "0"
    /\ dropped' = {}
    /\ opener' = "none"
    /\ res' = NoResult
    /\ wrote' = FALSE
    /\ stdin' = StdinOfProcess
    /\ pg_config' = DefaultConfig
    /\ guc' = DefaultConfig
    /\ UNCHANGED <<committed, fs, scan, par>>

BootNext == Initdb \/ HostContinues \/ NewProcess

BootSpec == BootInit /\ [][BootNext]_vars

\* The substitution loop on its own, one turn of while (*in) at a time, on
\* template lines put together from token names, beginnings of token names
\* and other text.
Pieces ==
    {Tokens[i].name : i \in 1..Len(Tokens)}
        \cup {<<"L", "C", "_", "C">>, <<"P", "O", "S", "T", "G", "R", "E">>,
              <<"S">>, <<" ">>}

RECURSIVE Flatten(_)
Flatten(ps) == IF ps = <<>> THEN <<>> ELSE Head(ps) \o Flatten(Tail(ps))

Lines == {Flatten(ps) : ps \in UNION {[1..n -> Pieces] : n \in 0..MaxPieces}}

\* a user name as long as the output buffer: strdup(username) takes any
\* length
LongUserName == [i \in 1..OutputSize |-> "u"]

\* the user names and locales given to the bootstrap: the defaults, a user
\* name that contains a token name, a long one, a locale name of the usual
\* form
UserNames ==
    {DefaultUserName,
     <<"P", "O", "S", "T", "G", "R", "E", "S", "_", "A", "D", "M", "I", "N">>,
     LongUserName}
Locales == {DefaultLocale, <<"e", "n", "_", "U", "S", ".", "U", "T", "F", "-", "8">>}

ScanInit ==
    /\ NewProcessState
    /\ committed = {}
    /\ fs = NoCluster
    /\ username_g \in UserNames
    /\ locale_g \in Locales
    /\ line \in Lines
    /\ pos = 1
    /\ output = <<>>
    /\ NoPar

\* one turn of while (*in); a turn that has written past the end of
\* output[] has overwritten the stack of the process, which may not
\* survive it
Scan ==
    /\ alive
    /\ pos <= Len(line)
    /\ LET s == ScanStep(line, pos, output)
       IN  /\ pos' = s.pos
           /\ output' = s.output
           /\ alive' \in (IF Len(s.output) + 1 > OutputSize THEN BOOLEAN ELSE {TRUE})
    /\ UNCHANGED <<pg_initialized, pg_error_msg, xact, committed, pending, snap, spi,
                   exc, call, trace, rc, dropped, opener, res, wrote, fs,
                   stdin, line, username_g, locale_g, pg_config, guc, par>>

ScanSpec == ScanInit /\ [][Scan]_vars

\* The durability flags: a host that sets them, starts and shuts down, on
\* a cluster bootstrapped by an earlier process.
BootstrappedCluster ==
    [dirs |-> {pg_data, pg_wal} \cup Range(subdirs),
     files |-> {PG_VERSION, postgresql_conf, bki_src_path},
     script |-> <<>>, catalogs |-> TRUE]

ConfInit ==
    /\ NewProcessState
    /\ NoScan
    /\ NoPar
    /\ committed = {}
    /\ fs = BootstrappedCluster

SetConfig ==
    /\ Idle
    /\ \E config \in Configs :
            LET after == pg_embedded_set_config(World, config)
            IN  Install(after, [op |-> "set_config", query |-> NullQuery,
                                config |-> config])

ConfNext == SetConfig \/ Start \/ Shutdown \/ HostContinues

ConfSpec == ConfInit /\ [][ConfNext]_vars

\* Bootstraps of different cluster paths running at the same time, each in
\* a process of its own; the directories and files under the cluster paths
\* are apart, the scratch script is one path for all.  A step is one
\* system call on that path, or the run of the bootstrap interpreter.
Procs == 1..NumProcs

\* the user names the bootstraps are given
ParUsers == {"postgres", "admin"}

\* the substituted script, as far as the bootstraps differ in it
ScriptOf(username) == <<"create", username>>

ParInit ==
    /\ NewProcessState
    /\ NoScan
    /\ committed = {}
    /\ fs = NoCluster
    /\ boot \in [Procs -> [pc : {"start"}, username : ParUsers, bki_dest : {0},
                           stdin : {0}, read : {<<>>}]]
    /\ scratch = [path |-> 0, data |-> [i \in Procs |-> <<>>]]

ParUnchanged ==
    UNCHANGED <<pg_initialized, pg_error_msg, xact, committed, pending, snap, spi,
                exc, alive, call, trace, rc, dropped, opener, res, wrote, fs,
                stdin, scan, pg_config, guc>>

\* bki_dest = fopen(bki_temp_path, "w"): the file under the name is cut to
\* nothing, or made when there is none
OpenScratch(p) ==
    /\ boot[p].pc = "start"
    /\ LET file == IF scratch.path = 0 THEN p ELSE scratch.path
       IN  /\ scratch' = [path |-> file, data |-> [scratch.data EXCEPT ![file] = <<>>]]
           /\ boot' = [boot EXCEPT ![p].pc = "opened", ![p].bki_dest = file]
    /\ ParUnchanged

\* the copy loop and fclose(bki_dest): the substituted script goes to the
\* file that was opened, from its beginning
WriteScript(p) ==
    /\ boot[p].pc = "opened"
    /\ scratch' = [scratch EXCEPT !.data[boot[p].bki_dest] = ScriptOf(boot[p].username)]
    /\ boot' = [boot EXCEPT ![p].pc = "written", ![p].bki_dest = 0]
    /\ ParUnchanged

\* freopen(bki_temp_path, "r", stdin); exit(1) when the name is gone
ReopenStdin(p) ==
    /\ boot[p].pc = "written"
    /\ boot' = IF scratch.path = 0
               THEN [boot EXCEPT ![p].pc = "exit(1)"]
               ELSE [boot EXCEPT ![p].pc = "redirected", ![p].stdin = scratch.path]
    /\ UNCHANGED scratch
    /\ ParUnchanged

\* BootstrapModeMain: the interpreter reads standard input to its end
Interpret(p) ==
    /\ boot[p].pc = "redirected"
    /\ boot' = [boot EXCEPT ![p].pc = "bootstrapped",
                            ![p].read = scratch.data[boot[p].stdin]]
    /\ UNCHANGED scratch
    /\ ParUnchanged

\* fclose(stdin); unlink(bki_temp_path)
UnlinkScratch(p) ==
    /\ boot[p].pc = "bootstrapped"
    /\ boot' = [boot EXCEPT ![p].pc = "done", ![p].stdin = 0]
    /\ scratch' = [scratch EXCEPT !.path = 0]
    /\ ParUnchanged

ParNext ==
    \E p \in Procs :
        OpenScratch(p) \/ WriteScript(p) \/ ReopenStdin(p) \/ Interpret(p)
            \/ UnlinkScratch(p)

ParSpec == ParInit /\ [][ParNext]_vars

----------------------------------------------------------------------------
(* Properties.  A step of the model is one public call (the unprimed       *)
(* variables are the state when the call is made, the primed ones the      *)
(* state when it is over, call' names the call), or the step of the host   *)
(* between two calls, with call'.op = "none".                              *)

InTrace(t, event) == \E i \in 1..Len(t) : t[i] = event

\* the call just made is `op` and it returned to the host
Returns(op) == call'.op = op /\ alive'

\* the engine's transaction and execution state is as it was
EngineUntouched ==
    /\ xact' = xact
    /\ committed' = committed
    /\ pending' = pending
    /\ snap' = snap
    /\ spi' = spi
    /\ opener' = opener
    /\ trace' = <<>>

\* the keys of the rows a returned result shows
Observed(r) ==
    {k \in Keys : \E i \in 1..Len(r.values.at) :
        r.values.at[i] = Row([j \in 1..NumCols |-> CopyCell(RowData(k)[j])])}

\* C1: while the handle is not initialized, exec returns no result, begin,
\* commit and rollback return -1, and none of them changes the handle or
\* the engine's transaction state.
C1_StateGating ==
    [][(~pg_initialized /\ call'.op \in {"exec", "begin", "commit", "rollback"})
        => /\ rc' = (IF call'.op = "exec" THEN "NULL" ELSE "-1")
           /\ ~res'.allocated
           /\ pg_initialized' = pg_initialized
           /\ EngineUntouched]_vars

C1_Witness ==
    /\ ~pg_initialized
    /\ call.op = "commit"
    /\ rc = "-1"
    /\ pg_error_msg = "Not initialized"
    /\ xact = "INPROGRESS"

\* C2 (as claimed): an exec called with no transaction open leaves no
\* transaction open on any path by which it returns.
C2_AutoCommitLeavesNothingOpen ==
    [][(pg_initialized /\ xact # "INPROGRESS" /\ Returns("exec"))
        => xact' # "INPROGRESS"]_vars

\* C3: a successful exec inside a transaction opened by begin neither
\* commits nor aborts it: it is still open, still begin's, with nothing
\* committed and no write lost.
C3_ExecKeepsExplicitTransaction ==
    [][(pg_initialized /\ xact = "INPROGRESS" /\ opener = "begin"
            /\ Returns("exec") /\ rc' = "result" /\ res'.status > 0)
        => /\ xact' = "INPROGRESS"
           /\ opener' = "begin"
           /\ committed' = committed
           /\ pending \subseteq pending'
           /\ dropped' = {}
           /\ ~InTrace(trace', "CommitTransactionCommand")
           /\ ~InTrace(trace', "AbortCurrentTransaction")]_vars

C3_Witness ==
    /\ call.op = "exec"
    /\ call.query.kind = "INSERT"
    /\ rc = "result"
    /\ res.status = SPI_OK_INSERT
    /\ xact = "INPROGRESS"
    /\ opener = "begin"
    /\ pending = Keys
    /\ committed = {}

\* C4 (as claimed): an exec that fails inside a transaction opened by begin
\* (negative status returned) leaves that transaction open.
C4_FailedExecKeepsExplicitTransaction ==
    [][(pg_initialized /\ xact = "INPROGRESS" /\ opener = "begin"
            /\ Returns("exec") /\ rc' = "result" /\ res'.status < 0)
        => xact' = "INPROGRESS" /\ opener' = "begin" /\ pending \subseteq pending']_vars

C6_RollbackDiscardsWrites ==
    [][/\ (pg_initialized /\ xact = "INPROGRESS" /\ opener = "begin"
                /\ Returns("exec") /\ rc' = "result" /\ res'.status > 0)
            => committed' = committed
       /\ (pg_initialized /\ xact = "INPROGRESS" /\ Returns("rollback"))
            => /\ rc' = "0"
               /\ committed' = committed
               /\ pending' = {}
               /\ dropped' = pending
               /\ xact' # "INPROGRESS"
       /\ (Returns("begin") /\ rc' = "0") => pending' = {}]_vars

C6_Witness ==
    /\ call.op = "rollback"
    /\ rc = "0"
    /\ dropped = Keys
    /\ committed = {}
    /\ xact = "DEFAULT"

\* C7: begin called while a transaction is open fails with "Already in
\* transaction", makes no engine call and leaves that transaction as it was.
C7_BeginInsideTransactionFails ==
    [][(pg_initialized /\ xact = "INPROGRESS" /\ call'.op = "begin")
        => /\ rc' = "-1"
           /\ pg_error_msg' = "Already in transaction"
           /\ alive'
           /\ EngineUntouched]_vars

C7_Witness ==
    /\ call.op = "begin"
    /\ rc = "-1"
    /\ pg_error_msg = "Already in transaction"
    /\ xact = "INPROGRESS"
    /\ opener = "begin"
    /\ pending # {}

\* C8: commit with no transaction open returns -1 and touches nothing; with
\* a transaction open, whenever it returns no transaction is open: either
\* it returns 0 and the writes are committed, or the engine commit raised,
\* the transaction was aborted, the message reported and -1 returned.
C8_CommitClosesTransaction ==
    [][(pg_initialized /\ Returns("commit"))
        => IF xact # "INPROGRESS"
           THEN rc' = "-1" /\ EngineUntouched
           ELSE /\ xact' = "DEFAULT"
                /\ pending' = {}
                /\ \/ /\ rc' = "0"
                      /\ committed' = committed \cup pending
                      /\ dropped' = {}
                   \/ /\ rc' = "-1"
                      /\ committed' = committed
                      /\ dropped' = pending
                      /\ pg_error_msg' = "COMMIT failed: <engine message>"
                      /\ InTrace(trace', "AbortCurrentTransaction")]_vars

C8_Witness ==
    /\ call.op = "commit"
    /\ rc = "-1"
    /\ pg_error_msg = "COMMIT failed: <engine message>"
    /\ InTrace(trace, "CommitTransactionCommand raised")
    /\ dropped # {}
    /\ xact = "DEFAULT"

C10_BeginFailureAborts ==
    [][(Returns("begin") /\ InTrace(trace', "StartTransactionCommand raised"))
        => /\ rc' = "-1"
           /\ pg_error_msg' = "BEGIN failed: <engine message>"
           /\ InTrace(trace', "AbortCurrentTransaction")
           /\ xact' = "DEFAULT"
           /\ pending' = {}]_vars

C10_Witness ==
    /\ call.op = "begin"
    /\ rc = "-1"
    /\ pg_error_msg = "BEGIN failed: <engine message>"
    /\ InTrace(trace, "StartTransactionCommand raised")
    /\ xact = "DEFAULT"

\* the call just made is one of the two start entry points
IsStart == call'.op \in StartEntries

\* C11: start called while the handle is initialized returns 0, runs no
\* bring-up step (so the connected database stays the one InitPostgres
\* chose) and leaves the handle and the transaction state, an open
\* transaction included, as they were.
C11_StartIsIdempotent ==
    [][(pg_initialized /\ IsStart)
        => /\ rc' = "0"
           /\ alive'
           /\ pg_initialized'
           /\ exc' = exc
           /\ dropped' = {}
           /\ EngineUntouched]_vars

C11_Witness ==
    /\ call.op \in StartEntries
    /\ pg_initialized
    /\ rc = "0"
    /\ trace = <<>>
    /\ pg_error_msg = "Already initialized"
    /\ xact = "INPROGRESS"
    /\ opener = "begin"
    /\ pending # {}

C13_ShutdownWhenNotInitialized ==
    [][(~pg_initialized /\ call'.op = "shutdown")
        => /\ trace' = <<>>
           /\ rc' = "void"
           /\ dropped' = {}
           /\ UNCHANGED <<pg_initialized, pg_error_msg, xact, committed, pending,
                          snap, spi, exc, alive, opener>>]_vars

\* a shutdown that did nothing, after one whose first exit hook raised
C13_Witness ==
    /\ call.op = "shutdown"
    /\ trace = <<>>
    /\ ~pg_initialized
    /\ xact = "ABORT"
    /\ alive

\* C14: shutdown leaves the handle not initialized; a start called then
\* runs the bring-up from its first step and succeeds only by running all
\* of it; exec, begin, commit and rollback fail until a start has
\* succeeded, and can succeed after it.
C14_RestartAfterShutdown ==
    [][/\ call'.op = "shutdown" => ~pg_initialized'
       /\ (~pg_initialized /\ IsStart /\ trace' # <<>>)
            => trace'[1] = "MemoryContextInit"
       /\ (~pg_initialized /\ IsStart)
            => IF rc' = "0"
               THEN /\ pg_initialized'
                    /\ trace' = InitSteps(call'.op = "init_with_system_mods")
               ELSE ~pg_initialized'
       /\ (~pg_initialized /\ call'.op \in {"exec", "begin", "commit", "rollback"})
            => /\ rc' \in {"NULL", "-1"}
               /\ ~pg_initialized']_vars

\* a start that succeeded by running the whole bring-up after rows had been
\* committed (so after an earlier start and a shutdown), in a state where
\* an exec and a begin can succeed
C14_Witness ==
    /\ call.op \in StartEntries
    /\ rc = "0"
    /\ pg_initialized
    /\ trace = InitSteps(call.op = "init_with_system_mods")
    /\ committed # {}
    /\ LET after == pg_embedded_exec(World, [kind |-> "SELECT", key |-> 0],
                                     Fault("none", 0, 0, FALSE))
       IN  /\ after.rc = "result"
           /\ after.res.status = SPI_OK_SELECT
           /\ Observed(after.res) = committed
    /\ pg_embedded_begin(World, "none").rc = "0"

\* the call just made is a start in which bring-up step number k raised
StartRaisedAt(k) ==
    LET steps == InitSteps(call'.op = "init_with_system_mods")
    IN  /\ IsStart
        /\ k \in 1..Len(steps)
        /\ trace' = SubSeq(steps, 1, k) \o <<"raised">>

\* C15: when a bring-up step raises, start returns -1 to a host that is
\* still running, with "Initialization failed: " and the engine's message
\* in the error buffer, no step after the raising one has run, and the
\* handle is not initialized.
C15_StartFailureIsCaught ==
    [][(IsStart /\ InTrace(trace', "raised"))
        => /\ \E k \in 1..Len(InitSteps(TRUE)) : StartRaisedAt(k)
           /\ rc' = "-1"
           /\ alive'
           /\ pg_error_msg' = "Initialization failed: <engine message>"
           /\ ~pg_initialized'
           /\ committed' = committed]_vars

\* the last step but one (SPI_finish of the smoke test) raised
C15_Witness ==
    /\ call.op = "init"
    /\ rc = "-1"
    /\ pg_error_msg = "Initialization failed: <engine message>"
    /\ ~pg_initialized
    /\ Len(trace) = Len(InitSteps(FALSE))
    /\ trace[Len(trace) - 1] = "SPI_finish"
    /\ trace[Len(trace)] = "raised"

\* the order of the bring-up: memory context, data directory, standalone
\* registration, configuration defaults, configuration files, directory
\* validation and chdir, cluster lock, control record, extensions and
\* capacity limits, shared memory, process control block, early backend
\* setup, database connection, normal processing mode, output suppression,
\* per-query memory scope, smoke-test transaction
BringUpOrder ==
    <<"MemoryContextInit", "SetDataDir", "InitStandaloneProcess",
      "InitializeGUCOptions", "SelectConfigFiles", "checkDataDir",
      "ChangeToDataDir", "CreateDataDirLockFile", "LocalProcessControlFile",
      "process_shared_preload_libraries", "InitializeMaxBackends",
      "CreateSharedMemoryAndSemaphores", "InitProcess", "BaseInit",
      "InitPostgres", "SetProcessingMode", "whereToSendOutput",
      "AllocSetContextCreate", "StartTransactionCommand", "SPI_connect",
      "SPI_finish", "CommitTransactionCommand">>

BringUpSteps == {BringUpOrder[i] : i \in 1..Len(BringUpOrder)}

InBringUpOrder(name) == name \in BringUpSteps

IsPrefix(s, t) == Len(s) <= Len(t) /\ \A i \in 1..Len(s) : s[i] = t[i]

\* the calls of a trace that completed: all but one that raised
Completed(t) ==
    IF t # <<>> /\ t[Len(t)] = "raised" THEN SubSeq(t, 1, Len(t) - 2) ELSE t

Positions(t, name) == {i \in 1..Len(t) : t[i] = name}

\* C17: allow_system_table_mods is set only by a start made through the
\* entry point that allows system catalog modifications, and there once,
\* right after the configuration defaults were loaded and before the
\* configuration files are read; such a start never reads the files
\* without having set it; no other operation and no plain start sets it.
C17_SystemModsOnlyBeforeConfigFiles ==
    [][LET set == Positions(trace', "SetConfigOption")
           read == Positions(trace', "SelectConfigFiles")
       IN  /\ set # {} => call'.op = "init_with_system_mods" /\ ~pg_initialized
           /\ Cardinality(set) <= 1
           /\ \A i \in set :
                /\ i > 1
                /\ trace'[i - 1] = "InitializeGUCOptions"
                /\ \A j \in read : i < j
           /\ (call'.op = "init_with_system_mods" /\ read # {}) => set # {}]_vars

C17_Witness ==
    /\ call.op = "init_with_system_mods"
    /\ pg_initialized
    /\ Positions(trace, "SetConfigOption") = {5}
    /\ Positions(trace, "SelectConfigFiles") = {6}

\* what a start reports to its caller: the return code and the error text
Reported(w) == <<w.rc, w.err>>

\* C18 (as claimed): a start that fails at the cluster lock file leaves the
\* handle not initialized and reports something that a start failing at
\* any other step does not report.
C18_LockConflictIsDistinct ==
    [][\A k \in 1..Len(InitSteps(TRUE)) :
        LET allow == call'.op = "init_with_system_mods"
            steps == InitSteps(allow)
        IN  (StartRaisedAt(k) /\ steps[k] = "CreateDataDirLockFile")
                => /\ ~pg_initialized'
                   /\ \A j \in 1..Len(steps) :
                        (j # k /\ steps[j] \notin Assignments)
                            => Reported(init_try(World, allow, j, FALSE))
                                    # <<rc', pg_error_msg'>>]_vars

\* the engine failed while planning or running the statement of the call
\* just made: SPI_execute raised, or it returned a negative code
ExecutionFailed ==
    /\ call'.op = "exec"
    /\ \/ InTrace(trace', "SPI_execute raised")
       \/ InTrace(trace', "SPI_execute") /\ res'.status < 0

\* C19 (as claimed): when the engine fails while planning or running the
\* statement and exec returns, it returns a result, not NULL, with a
\* negative status, and the error buffer holds "Query failed: " and the
\* engine's message.
C19_FailedExecReturnsResult ==
    [][(pg_initialized /\ ExecutionFailed /\ alive')
        => /\ rc' = "result"
           /\ res'.allocated
           /\ res'.status < 0
           /\ pg_error_msg' = "Query failed: <engine message>"]_vars

\* the keys of the rows a SELECT made by the next call sees, in the order
\* of the tuple table
Seen == SortedKeys(committed \cup (IF xact = "INPROGRESS" THEN pending ELSE {}))

Entries(a) == IF a.null THEN 0 ELSE Len(a.at)

\* r.colnames has r.cols entries and r.values, when present, is r.rows rows
\* of r.cols cells each
WellShaped(r) ==
    /\ Entries(r.colnames) = r.cols
    /\ ~r.values.null
        => /\ Entries(r.values) = r.rows
           /\ \A i \in 1..r.rows :
                /\ r.values.at[i].init
                /\ Len(r.values.at[i].cells) = r.cols
                /\ \A j \in 1..r.cols : r.values.at[i].cells[j] # Uninit

\* C21 (as claimed): every result exec returns is well shaped, and the
\* result of a statement that hands no tuple table to the caller has no
\* columns, no column names and no grid, whatever its row count.
C21_ResultShape ==
    (call.op = "exec" /\ alive /\ rc = "result")
        => /\ res.allocated
           /\ WellShaped(res)
           /\ call.query.kind # "SELECT"
                => res.cols = 0 /\ res.values.null /\ res.colnames.null

----------------------------------------------------------------------------
(* Properties of the bootstrapper                                          *)

LayoutDirs == {pg_data, pg_wal} \cup Range(subdirs)
LayoutFiles == {PG_VERSION, postgresql_conf}

\* the directories and files in the order the bootstrapper creates them
LayoutOrder == <<pg_data, pg_wal>> \o subdirs \o <<PG_VERSION, postgresql_conf>>

Exists(f, path) == path \in f.dirs \cup f.files

LayoutComplete(f) == \A path \in Range(LayoutOrder) : Exists(f, path)

\* the full layout was created and the catalog bootstrap completed
Initialized(f) == LayoutComplete(f) /\ f.catalogs

IsInitdb == call'.op = "initdb"

\* the call ended the process with an error message naming path
FailedOn(t, path) ==
    /\ Len(t) >= 3
    /\ t[Len(t)] = "exit(1)"
    /\ t[Len(t) - 1] = path

\* C22: initialize_cluster called with a path on which an earlier call
\* succeeded returns 0 to a running host, leaves the file system (and
\* standard input) exactly as it was, and does not call the bootstrap
\* interpreter.
C22_IdempotentBootstrap ==
    [][(IsInitdb /\ call'.argsOk /\ Initialized(fs))
        => /\ rc' = "0"
           /\ alive'
           /\ fs' = fs
           /\ stdin' = stdin
           /\ ~InTrace(trace', "BootstrapModeMain")
           /\ InTrace(trace', "WARNING: database directory already initialized")]_vars

\* a second call, in the process that made the first or in a later one
C22_Witness ==
    /\ call.op = "initdb"
    /\ call.argsOk
    /\ rc = "0"
    /\ Initialized(fs)
    /\ trace = <<"WARNING: database directory already initialized">>

\* C23 (as claimed): whenever a call is over, for whatever reason, the
\* version marker exists exactly if the directory is initialized, and a
\* call that reports success has an initialized directory behind it.
C23_MarkerIffInitialized ==
    /\ PG_VERSION \in fs.files <=> Initialized(fs)
    /\ (call.op = "initdb" /\ call.argsOk /\ alive /\ rc = "0") => Initialized(fs)

\* C24: a call made on a path without a version marker returns success
\* only with the root, the WAL directory, every subdirectory of the list,
\* the version marker and the configuration file in place; when one of
\* them is missing after the call, the call has ended the process with an
\* error message naming a path of the layout, everything before that path
\* in creation order exists, and nothing after it was created.
C24_LayoutOrFatal ==
    [][(IsInitdb /\ call'.argsOk /\ PG_VERSION \notin fs.files)
        => /\ (alive' /\ rc' = "0") => LayoutComplete(fs')
           /\ ~LayoutComplete(fs')
                => /\ ~alive'
                   /\ \E k \in 1..Len(LayoutOrder) :
                        /\ FailedOn(trace', LayoutOrder[k])
                        /\ \A j \in 1..(k - 1) : Exists(fs', LayoutOrder[j])
                        /\ \A j \in (k + 1)..Len(LayoutOrder) :
                             Exists(fs', LayoutOrder[j]) => Exists(fs, LayoutOrder[j])]_vars

\* a call that created the whole layout and bootstrapped the catalogs
C24_Witness ==
    /\ call.op = "initdb"
    /\ alive
    /\ rc = "0"
    /\ LayoutComplete(fs)
    /\ InTrace(trace, "BootstrapModeMain")
    /\ ~InTrace(trace, "WARNING: directory exists")

\* C25: a call made on a path that is a directory without a version marker
\* warns that the directory exists and does not end with an error about
\* the root; in an empty directory it goes on to create the WAL directory
\* (or fails on that one), and when it returns success the file system is
\* the one a bootstrap of a non-existent path ends with.
C25_ExistingRootTolerated ==
    [][(IsInitdb /\ call'.argsOk /\ pg_data \in fs.dirs /\ PG_VERSION \notin fs.files)
        => /\ InTrace(trace', "WARNING: directory exists")
           /\ ~FailedOn(trace', pg_data)
           /\ fs.dirs = {pg_data}
                => /\ pg_wal \in fs'.dirs \/ FailedOn(trace', pg_wal)
                   /\ (alive' /\ rc' = "0")
                        => fs' = pg_embedded_initdb([World EXCEPT !.fs.dirs = {}],
                                                    TRUE, NoFault).fs]_vars

\* the bootstrap of an empty directory succeeded
C25_Witness ==
    /\ call.op = "initdb"
    /\ alive
    /\ rc = "0"
    /\ Initialized(fs)
    /\ InTrace(trace, "WARNING: directory exists")
    /\ InTrace(trace, "BootstrapModeMain")

\* the tokens whose name is found at position p of line l
Matching(l, p) == {i \in 1..Len(Tokens) : StartsWith(l, p, Tokens[i].name)}

\* C26: in every turn of the substitution loop that stands where a token
\* name begins, the token substituted is the longest of the tokens whose
\* name is found there: the scan moves past the whole of that name and its
\* replacement is what is added to the output.
C26_LongestTokenWins ==
    [][Matching(line, pos) # {}
        => \E i \in Matching(line, pos) :
             /\ \A j \in Matching(line, pos) : Len(Tokens[j].name) <= Len(Tokens[i].name)
             /\ pos' = pos + Len(Tokens[i].name)
             /\ output' = output \o Tokens[i].value]_vars

\* two adjacent tokens with a common beginning, both substituted
C26_Witness ==
    /\ line = Tokens[6].name \o Tokens[7].name
    /\ pos = Len(line) + 1
    /\ output = Tokens[6].value \o Tokens[7].value

\* C27 (as claimed): once a call of initialize_cluster is over, however it
\* ended, descriptor 0 of the process is the original input channel again.
C27_StdinRestored ==
    call.op = "initdb" => stdin.fd = "original"

\* C28 (as claimed): once a call of initialize_cluster is over, however it
\* ended, the scratch file with the substituted script does not exist.
C28_ScratchRemoved ==
    call.op = "initdb" => bki_temp_path \notin fs.files

----------------------------------------------------------------------------
(* Properties of the error policy                                          *)

\* the operations that report failure through their return value
ReportingOps == {"initdb", "exec", "begin", "commit", "rollback"} \cup StartEntries

\* the call just made returned a failure to the host
FailureReturned ==
    /\ call'.op \in ReportingOps
    /\ alive'
    /\ \/ rc' \in {"-1", "NULL"}
       \/ rc' = "result" /\ res'.status < 0

\* the text the failure just returned is reported with, by operation and
\* by what made the call fail
FailureText ==
    CASE call'.op = "initdb" ->
            IF ~call'.argsOk THEN {"data_dir and username are required"}
            ELSE {"initdb failed"}
      [] call'.op \in StartEntries ->
            IF trace' = <<>> THEN {"Invalid arguments"}
            ELSE IF InTrace(trace', "raised")
            THEN {"Initialization failed: <engine message>"}
            ELSE {"SPI_connect failed"}
      [] call'.op = "exec" ->
            IF ~pg_initialized THEN {"Not initialized"}
            ELSE IF call'.query = NullQuery THEN {"NULL query"}
            ELSE IF rc' = "NULL" THEN {"Out of memory"}
            ELSE IF \E e \in Range(trace') :
                        e \in {"StartTransactionCommand raised", "PushActiveSnapshot raised",
                               "SPI_connect raised", "SPI_execute raised",
                               "SPI_getvalue raised", "SPI_finish raised",
                               "CommitTransactionCommand raised"}
            THEN {"Query failed: <engine message>"}
            ELSE {"SPI_connect failed", "Query execution failed with code"}
      [] call'.op = "begin" ->
            IF ~pg_initialized THEN {"Not initialized"}
            ELSE IF xact = "INPROGRESS" THEN {"Already in transaction"}
            ELSE {"BEGIN failed: <engine message>"}
      [] call'.op = "commit" ->
            IF ~pg_initialized THEN {"Not initialized"}
            ELSE IF xact # "INPROGRESS" THEN {"Not in transaction"}
            ELSE {"COMMIT failed: <engine message>"}
      [] OTHER -> {"Not in transaction"}

RaiseEvents ==
    {"raised", "StartTransactionCommand raised", "CommitTransactionCommand raised",
     "AbortCurrentTransaction raised", "PushActiveSnapshot raised",
     "SPI_connect raised", "SPI_execute raised", "SPI_getvalue raised",
     "SPI_finish raised", "shmem_exit raised", "error outside PG_TRY"}

\* C30 (as claimed): whenever the engine raised an error during a public
\* operation, the operation has returned to the host, has written the
\* error buffer and (shutdown, which returns nothing, apart) has returned
\* a failure.
C30_NoExceptionReachesHost ==
    (call.op # "none" /\ \E e \in Range(trace) : e \in RaiseEvents)
        => /\ alive
           /\ call.op # "shutdown"
                => /\ wrote
                   /\ \/ rc \in {"-1", "NULL"}
                      \/ rc = "result" /\ res.status < 0

----------------------------------------------------------------------------
(* Properties of the durability flags                                      *)

----------------------------------------------------------------------------
(* Properties of the result copy and of the state between calls            *)

\* every a of trace t comes before every b
Before(t, a, b) ==
    \A i, j \in 1..Len(t) : (t[i] = a /\ t[j] = b) => i < j

\* the result holds a copy of every column name and of every cell
FullyCopied(r, tuptable) ==
    /\ r.cols = NumCols
    /\ r.colnames = Array(ColNames)
    /\ r.values = Array([i \in 1..r.rows |->
                            Row([j \in 1..NumCols |-> CopyCell(tuptable[i][j])])])

----------------------------------------------------------------------------
(* C33: a start that brings the handle up leaves the engine idle           *)

\* the empty transaction of the bring-up, as the last four engine calls
SmokeTest ==
    <<"StartTransactionCommand", "SPI_connect", "SPI_finish",
      "CommitTransactionCommand">>

\* the call returned 0 on a handle that was not initialized before
BroughtUp == IsStart /\ ~pg_initialized /\ rc' = "0" /\ alive'

\* a begin made now succeeds
FirstBeginSucceeds ==
    LET b == pg_embedded_begin(World, "none")
    IN  b.rc = "0" /\ b.opener = "begin" /\ IsTransactionState(b)

\* a statement run now opens and commits its own transaction
FirstExecAutoCommits ==
    LET e == pg_embedded_exec(World, [kind |-> "INSERT", key |-> 1],
                              Fault("none", 0, 0, FALSE))
    IN  /\ e.rc = "result"
        /\ e.trace[1] = "StartTransactionCommand"
        /\ e.trace[Len(e.trace)] = "CommitTransactionCommand"
        /\ 1 \in e.committed

----------------------------------------------------------------------------
(* C34: what an exec holds when it returns                                 *)

\* C34 (as claimed): when exec returns, by any path, the snapshot it pushed
\* has been released and the SPI engagement it opened has been closed,
\* directly or by the abort of the transaction: an exec entered with none
\* held returns with none held, inside a transaction opened by begin too.
C34_ExecHoldsNothing ==
    [][(pg_initialized /\ Returns("exec"))
        => snap' <= snap /\ spi' <= spi]_vars

----------------------------------------------------------------------------
(* C35: the exception-handler stack over a call                            *)

\* the operations that install a handler of their own
ProtectedOps == StartEntries \cup {"exec", "begin", "commit", "rollback", "shutdown"}

\* C35 (as claimed): every return of start, exec, begin, commit, rollback
\* and shutdown leaves PG_exception_stack as it was when the operation was
\* entered: no operation returns from inside PG_TRY() with its own handler
\* still installed.
C35_HandlerStackRestored ==
    [][(call'.op \in ProtectedOps /\ alive') => exc' = exc]_vars

----------------------------------------------------------------------------
(* C36: the results handed to pg_embedded_free_result                      *)

\* the exec just made handed its result to the release operation: it
\* returned it to the caller, or released it itself
HandedToRelease ==
    /\ call'.op = "exec"
    /\ \/ alive' /\ rc' = "result"
       \/ InTrace(trace', "pg_embedded_free_result")

\* C36 (as claimed): in every result exec hands to the release operation,
\* returned to the caller (also with a negative status after an engine
\* error in the middle of the copy) or released by exec itself after an
\* allocation failure, every row slot and every cell slot of an allocated
\* row holds a string or NULL: the release operation reads no slot that
\* was never written.
C36_ReleaseReadsWrittenSlots ==
    [][HandedToRelease
        => res'.allocated /\ UnwrittenSlotsRead(res') = {}]_vars

----------------------------------------------------------------------------
(* C37: the substitution is one pass from left to right                    *)

\* C37: every turn of the substitution loop moves forward in the line and
\* only adds to the end of the output; where no token name begins, the
\* character under the scan is copied as it is and the scan moves by one;
\* where one begins, the scan moves past the name and the replacement is
\* added as it is, token names inside it (a user name, a locale) included:
\* the text written is never read again.
C37_SinglePass ==
    [][/\ pos' > pos
       /\ Len(output') >= Len(output)
       /\ SubSeq(output', 1, Len(output)) = output
       /\ IF Matching(line, pos) = {}
          THEN pos' = pos + 1 /\ output' = Append(output, line[pos])
          ELSE \E i \in Matching(line, pos) :
                    /\ pos' = pos + Len(Tokens[i].name)
                    /\ output' = output \o Tokens[i].value]_vars

\* a line with the user name token and a blank, substituted with a user
\* name that itself begins with a token name: the output holds that name
\* as given
C37_Witness ==
    /\ line = <<"P", "O", "S", "T", "G", "R", "E", "S", " ">>
    /\ Matching(username_g, 1) # {}
    /\ pos = Len(line) + 1
    /\ output = username_g \o <<" ">>

----------------------------------------------------------------------------
(* C38: the substituted line and the output buffer                         *)

\* C38 (as claimed): for every line read into the line buffer and every
\* user name and locale, what the loop has written to output[], with the
\* terminator that follows it, fits in the OutputSize bytes of the buffer.
C38_OutputFits == Len(output) + 1 <= OutputSize

----------------------------------------------------------------------------
(* C39: bootstraps of different cluster paths at the same time             *)

\* the step is one of process p
StepOf(p) == boot'[p] # boot[p]

\* process q has made its scratch file and has not yet run the interpreter
\* on it
ScratchInUse(q) == boot[q].pc \in {"opened", "written", "redirected"}

\* C39 (as claimed): bootstraps of different cluster paths running at the
\* same time in different processes do not interfere: the interpreter of
\* each reads exactly the script its own bootstrap wrote, and no step of
\* one removes, cuts or overwrites the scratch file another is using.
C39_NoInterference ==
    [][\A p \in Procs :
        /\ (StepOf(p) /\ boot'[p].pc = "bootstrapped")
                => boot'[p].read = ScriptOf(boot[p].username)
        /\ \A q \in Procs \ {p} :
                (StepOf(p) /\ ScratchInUse(q)) => scratch' = scratch]_vars
====
